---- MODULE Spec2Model ----
(***************************************************************************)
(* Model of src/app.py: the batch indexation check of a workbook.          *)
(*                                                                         *)
(* One run: for every selected sheet the target column is located, the     *)
(* cells that look like URLs are submitted as one remote job (ЭТАП 1); the  *)
(* jobs are then polled in one batched status loop with a wall-clock       *)
(* timeout, and every job reported completed has its report fetched and    *)
(* written back into the sheet's "Index" column (ЭТАП 2); finally the kept  *)
(* sheets are written to the output workbook and a notification is sent    *)
(* (ЭТАП 3).                                                                *)
(*                                                                         *)
(* Strings are sequences of tokens (a blank, a scheme, a host), so that    *)
(* str.strip(), str.lower() and str.startswith() are computed, not assumed.*)
(* Time is counted in units of 2.5 s, the pause between two polls.         *)
(***************************************************************************)
EXTENDS Integers, Sequences, FiniteSets, TLC

\* ------------------------------------------------------------------------
\* Python strings and pandas cells
\* ------------------------------------------------------------------------

\* str.lower() on one token.
LowerTok(t) ==
    CASE t = "HTTPS://" -> "https://"
      [] t = "HTTP://" -> "http://"
      [] t = "A.TEST" -> "a.test"
      [] t = "Source" -> "source"
      [] t = "SOURCE" -> "source"
      [] t = "URL" -> "url"
      [] t = "Url" -> "url"
      [] t = "Link" -> "link"
      [] t = "Referring Page URL" -> "referring page url"
      [] t = "Name" -> "name"
      [] t = "Index" -> "index"
      [] OTHER -> t

\* str.lower() on a string.
Lower(s) == [k \in 1..Len(s) |-> LowerTok(s[k])]

RECURSIVE LStrip(_)
\* Leading blanks removed.
LStrip(s) == IF s # <<>> /\ Head(s) = " " THEN LStrip(Tail(s)) ELSE s

RECURSIVE RStrip(_)
\* Trailing blanks removed.
RStrip(s) ==
    IF s # <<>> /\ s[Len(s)] = " " THEN RStrip(SubSeq(s, 1, Len(s) - 1)) ELSE s

\* str.strip().
Strip(s) == RStrip(LStrip(s))

\* str.startswith(prefixes), prefixes a set of one-token prefixes.
StartsWith(s, prefixes) == s # <<>> /\ Head(s) \in prefixes

\* Cell values of a DataFrame: a str, a float (a number or an empty cell read
\* as NaN) or a bool.
StrCell(s) == [kind |-> "str", toks |-> s]
NumCell == [kind |-> "float", toks |-> <<"42">>]
NaNCell == [kind |-> "float", toks |-> <<"nan">>]
BoolCell(b) == [kind |-> "bool", toks |-> IF b THEN <<"True">> ELSE <<"False">>]

\* isinstance(val, str)
IsStr(val) == val.kind = "str"

looks_like_url(val) ==
    IF ~IsStr(val) THEN FALSE
    ELSE StartsWith(Lower(Strip(val.toks)), {"http://", "https://"})

\* ------------------------------------------------------------------------
\* DataFrames: columns (header labels, in order) and rows (one cell per column)
\* ------------------------------------------------------------------------

Frame(cols, rows) == [columns |-> cols, rows |-> rows]

\* Position of the column labelled c.
RECURSIVE ColPosFrom(_, _, _)
ColPosFrom(cols, c, k) ==
    IF k > Len(cols) THEN 0
    ELSE IF cols[k] = c THEN k ELSE ColPosFrom(cols, c, k + 1)

ColPos(df, c) == ColPosFrom(df.columns, c, 1)

\* df[c][r]
CellAt(df, r, c) == df.rows[r][ColPos(df, c)]

\* col_map = {c.lower(): c for c in df.columns}: for a lowercased label, the
\* last column that carries it.
RECURSIVE ColMapFrom(_, _, _)
ColMapFrom(cols, k, lo) ==
    IF lo = 0 THEN ""
    ELSE IF LowerTok(cols[lo]) = k THEN cols[lo] ELSE ColMapFrom(cols, k, lo - 1)

ColMapHas(df, k) == \E j \in 1..Len(df.columns) : LowerTok(df.columns[j]) = k

ColMap(df, k) == ColMapFrom(df.columns, k, Len(df.columns))

\* The labels accepted for the target column, by priority.
TargetKeys == <<"source", "url", "link", "referring page url">>

\* The labels looked up again when the report is written back.
ReconcileKeys == {"source", "url", "link"}

NoCol == "<none>"

\* target_col: the column of the first accepted label present, or None.
RECURSIVE TargetColFrom(_, _)
TargetColFrom(df, j) ==
    IF j > Len(TargetKeys) THEN NoCol
    ELSE IF ColMapHas(df, TargetKeys[j]) THEN ColMap(df, TargetKeys[j])
    ELSE TargetColFrom(df, j + 1)

TargetCol(df) == TargetColFrom(df, 1)

\* valid_mask = df[target_col].apply(looks_like_url)
ValidMask_all(df, col) == [r \in 1..Len(df.rows) |-> TRUE]
ValidMask(df, col) == [r \in 1..Len(df.rows) |-> looks_like_url(CellAt(df, r, col))]

\* urls_to_check: the masked cells in row order, each stripped.
RECURSIVE UrlsFrom(_, _, _, _)
UrlsFrom(df, col, mask, r) ==
    IF r > Len(df.rows) THEN <<>>
    ELSE IF mask[r]
         THEN <<Strip(CellAt(df, r, col).toks)>> \o UrlsFrom(df, col, mask, r + 1)
         ELSE UrlsFrom(df, col, mask, r + 1)

UrlsToCheck(df, col, mask) == UrlsFrom(df, col, mask, 1)

\* ------------------------------------------------------------------------
\* Inputs: workbooks and the user's selection of sheets
\* ------------------------------------------------------------------------

UA == <<"https://", "a.test">>
UB == <<"HTTPS://", "b.test">>
UC == <<"http://", "c.test">>

\* A Source column: a padded URL, a text that is no URL, the same URL again.
FrameDup ==
    Frame(<<"Source">>,
          << <<StrCell(<<" ">> \o UA \o <<" ">>)>>,
             <<StrCell(<<"not-a-url">>)>>,
             <<StrCell(UA)>> >>)

\* A URL column beside another one: an upper-case scheme and a number.
FrameTwo ==
    Frame(<<"Name", "URL">>,
          << <<StrCell(<<"x">>), StrCell(UB)>>,
             <<StrCell(<<"y">>), NumCell>> >>)

\* No column carries an accepted label.
FrameNoCol == Frame(<<"Name">>, << <<StrCell(UC)>> >>)

\* A Link column without any URL.
FrameNoUrl ==
    Frame(<<"Link">>, << <<StrCell(<<"ftp://", "a.test">>)>>, <<NaNCell>> >>)

\* The target column under the fourth accepted label only.
FrameRef == Frame(<<"Referring Page URL">>, << <<StrCell(UA)>>, <<NaNCell>> >>)

\* Two accepted labels, the one of lower priority first: two rows share the
\* target of their Source column and differ in their Link column.
FrameLinkSource ==
    Frame(<<"Link", "Source">>,
          << <<StrCell(UC), StrCell(UA)>>,
             <<StrCell(<<"x">>), StrCell(UA)>> >>)

\* A workbook: its sheets in file order, and the sheets the user selected.
Book(names, frames, sel) == [names |-> names, frames |-> frames, selected |-> sel]

\* The workbooks a run may be given; a run holds the number of its workbook.
Books ==
    << Book(<<"S1", "S2">>, [S1 |-> FrameDup, S2 |-> FrameTwo], <<"S1", "S2">>),
       Book(<<"S1", "S2">>, [S1 |-> FrameNoCol, S2 |-> FrameNoUrl], <<"S1", "S2">>),
       Book(<<"S1", "S2", "S3">>,
            [S1 |-> FrameTwo, S2 |-> FrameNoUrl, S3 |-> FrameDup],
            <<"S1", "S2">>),
       Book(<<"S1">>, [S1 |-> FrameTwo], <<"S1">>),
       Book(<<"S1">>, [S1 |-> FrameRef], <<"S1">>),
       Book(<<"S1">>, [S1 |-> FrameLinkSource], <<"S1">>) >>

\* The workbooks of the runs of Spec; and of SpecCount, whose runs on a
\* workbook of CountBooks count their polls, against a remote that never
\* reports a job completed.
Workbooks == {1, 2, 3, 5, 6}
CountBooks == {4}
PlainBooks == {2, 3}

\* Job identifiers the remote service may hand out.
TaskIds == {"t1", "t2"}

\* ------------------------------------------------------------------------
\* Constants of the program (time in units of 2.5 s) and bounds of the model
\* ------------------------------------------------------------------------

\* time.time() - start_time > 300: the five-minute timeout, 120 units.
Timeout == 120

\* time.sleep(2.5) between two polls while a listed job is still running.
PollSleep == 1

\* time.sleep(5) after an exception in a poll.
ErrSleep == 2

\* The longest time the remote calls of one poll take together, in units.
MaxLatency == 1

\* The longest status response, in entries.
MaxStatusLen == 2

\* The clock stops being read here; no poll starts this late.
Horizon == Timeout + MaxLatency + ErrSleep + 1

\* The attempt ceiling that a budget of Timeout at one poll per PollSleep
\* would give, and where the count of polls stops counting.
MaxAttempts == Timeout \div PollSleep
AttemptCap == MaxAttempts + 1

Min(a, b) == IF a < b THEN a ELSE b

\* ------------------------------------------------------------------------
\* State
\* ------------------------------------------------------------------------

VARIABLES
    workbook,          \* the uploaded file and the selection: a number in Books
    counting,          \* a run that counts its polls (attempts), against a remote
                       \*   that never reports a job completed
    phase,             \* "submit", "stopped", "poll", "save", "done"
    i,                 \* position of the submission loop in selected_sheets
    frames,            \* the DataFrame objects read so far, by sheet name
    processed_sheets,  \* keys of processed_sheets; each value is frames[key]
    active_tasks,      \* task_id -> [sheet, urls, valid_mask]; original_df is frames[sheet]
    total_urls_sent,
    completed_ids,
    all_ids,
    start_time,
    now,               \* time.time()
    output,            \* the sheets written to the output workbook, in order
    written,           \* whether the output workbook was written and offered
    slack,             \* the notifications sent
    requests,          \* history: the create requests sent, [sheet, urls]
    createFailed,      \* history: sheets whose create call was rejected or raised
    timedOut,          \* history: the wait was left by the timeout break
    attempts,          \* history: status queries sent (counted when counting)
    lastQuery,         \* history: task_ids of the last status query
    refetched,         \* history: ids whose report was requested while completed
    lastExc,           \* history: where the last poll raised: "none", "status",
                       \*   "report" or "reconcile"
    lastFailed,        \* history: the id whose entry raised in the last poll, or ""
    lastPause,         \* history: the pause the last poll ended with, in units
    reported,          \* history: the reports the last poll was answered with,
                       \*   [id, links], for the jobs of the run
    blocked,           \* history: jobs the last poll left unreconciled, see SkipEntry
    allStatusFailed    \* history: every poll so far raised in the status call

vars ==
    <<workbook, counting, phase, i, frames, processed_sheets, active_tasks,
      total_urls_sent, completed_ids, all_ids, start_time, now, output, written,
      slack, requests, createFailed, timedOut, attempts, lastQuery, refetched,
      lastExc, lastFailed, lastPause, reported, blocked, allStatusFailed>>

submitVars == <<completed_ids, all_ids, start_time, now, output, written, slack,
                timedOut, attempts, lastQuery, refetched, lastExc, lastFailed, lastPause, reported,
                blocked, allStatusFailed>>

EmptyFn == [x \in {} |-> x]

\* xl_file.sheet_names, the selection, and the sheet as pandas reads it.
all_sheets == Books[workbook].names
selected_sheets == Books[workbook].selected
ReadSheet(sheet) == Books[workbook].frames[sheet]

InitWith(books, cnt) ==
    /\ workbook \in books
    /\ counting = cnt
    /\ phase = "submit"
    /\ i = 1
    /\ frames = EmptyFn
    /\ processed_sheets = {}
    /\ active_tasks = EmptyFn
    /\ total_urls_sent = 0
    /\ completed_ids = {}
    /\ all_ids = {}
    /\ start_time = 0
    /\ now = 0
    /\ output = <<>>
    /\ written = FALSE
    /\ slack = <<>>
    /\ requests = {}
    /\ createFailed = {}
    /\ timedOut = FALSE
    /\ attempts = 0
    /\ lastQuery = {}
    /\ refetched = {}
    /\ lastExc = "none"
    /\ lastFailed = ""
    /\ lastPause = 0
    /\ reported = {}
    /\ blocked = {}
    /\ allStatusFailed = TRUE

Init == InitWith(Workbooks, FALSE)

\* ------------------------------------------------------------------------
\* ЭТАП 1: one iteration of `for sheet in selected_sheets`
\* ------------------------------------------------------------------------

\* What the create call came to: a job id with code 0, a code other than 0,
\* or an exception (network, a body that is no JSON, no task_id in it).
CreateOutcomes ==
    [kind : {"ok"}, task_id : TaskIds]
        \cup [kind : {"rejected", "raised"}, task_id : {""}]

\* processed_sheets[sheet] = df on a rejected or raised create call.
OnCreateFailure(ps, sheet) == ps \cup {sheet}

\* Where the loop goes on after a rejected or raised create call.
AfterCreateFailure_break(k, n) == n + 1
AfterCreateFailure(k, n) == k + 1

\* `if not urls_to_check`
NoUrls_never(urls) == FALSE
NoUrls(urls) == urls = <<>>

\* The sheet has no target column: kept as it is.
SubmitNoColumn ==
    /\ phase = "submit"
    /\ i <= Len(selected_sheets)
    /\ LET sheet == selected_sheets[i]
           df == ReadSheet(sheet)
       IN /\ TargetCol(df) = NoCol
          /\ frames' = (sheet :> df) @@ frames
          /\ processed_sheets' = processed_sheets \cup {sheet}
    /\ i' = i + 1
    /\ UNCHANGED <<workbook, counting, phase, active_tasks, total_urls_sent,
                   requests, createFailed>>
    /\ UNCHANGED submitVars

\* The target column holds no URL: kept as it is, nothing is sent.
SubmitNoUrls ==
    /\ phase = "submit"
    /\ i <= Len(selected_sheets)
    /\ LET sheet == selected_sheets[i]
           df == ReadSheet(sheet)
           col == TargetCol(df)
       IN /\ col # NoCol
          /\ NoUrls(UrlsToCheck(df, col, ValidMask(df, col)))
          /\ frames' = (sheet :> df) @@ frames
          /\ processed_sheets' = processed_sheets \cup {sheet}
    /\ i' = i + 1
    /\ UNCHANGED <<workbook, counting, phase, active_tasks, total_urls_sent,
                   requests, createFailed>>
    /\ UNCHANGED submitVars

\* The URLs of the sheet are sent in one create request.
SubmitCreate ==
    /\ phase = "submit"
    /\ i <= Len(selected_sheets)
    /\ LET sheet == selected_sheets[i]
           df == ReadSheet(sheet)
           col == TargetCol(df)
           valid_mask == ValidMask(df, col)
           urls_to_check == UrlsToCheck(df, col, valid_mask)
       IN /\ col # NoCol
          /\ ~NoUrls(urls_to_check)
          /\ frames' = (sheet :> df) @@ frames
          /\ total_urls_sent' = total_urls_sent + Len(urls_to_check)
          /\ requests' = requests \cup {[sheet |-> sheet, urls |-> urls_to_check]}
          /\ \E data \in CreateOutcomes :
                IF data.kind = "ok"
                THEN /\ active_tasks' =
                            (data.task_id :>
                                [sheet |-> sheet, urls |-> urls_to_check,
                                 valid_mask |-> valid_mask]) @@ active_tasks
                     /\ i' = i + 1
                     /\ UNCHANGED <<processed_sheets, createFailed>>
                ELSE /\ processed_sheets' = OnCreateFailure(processed_sheets, sheet)
                     /\ createFailed' = createFailed \cup {sheet}
                     /\ i' = AfterCreateFailure(i, Len(selected_sheets))
                     /\ UNCHANGED active_tasks
    /\ UNCHANGED <<workbook, counting, phase>>
    /\ UNCHANGED submitVars

\* `if not active_tasks`
NoTasks_single(tasks) == Cardinality(DOMAIN tasks) <= 1
NoTasks(tasks) == DOMAIN tasks = {}

\* No job was created: a warning, and the script stops.
NoActiveTasks ==
    /\ phase = "submit"
    /\ i > Len(selected_sheets)
    /\ NoTasks(active_tasks)
    /\ phase' = "stopped"
    /\ UNCHANGED <<workbook, counting, i, frames, processed_sheets, active_tasks,
                   total_urls_sent, requests, createFailed>>
    /\ UNCHANGED submitVars

\* Start of ЭТАП 2.
BeginWait ==
    /\ phase = "submit"
    /\ i > Len(selected_sheets)
    /\ ~NoTasks(active_tasks)
    /\ phase' = "poll"
    /\ completed_ids' = {}
    /\ all_ids' = DOMAIN active_tasks
    /\ start_time' = now
    /\ UNCHANGED <<workbook, counting, i, frames, processed_sheets, active_tasks,
                   total_urls_sent, requests, createFailed, now, output, written,
                   slack, timedOut, attempts, lastQuery, refetched, lastExc,
                   lastFailed, lastPause, reported, blocked, allStatusFailed>>

\* ------------------------------------------------------------------------
\* ЭТАП 2: the batched wait
\* ------------------------------------------------------------------------

\* `while len(completed_ids) < len(all_ids)`
StillWaiting_first(done, ids) == done = {}
StillWaiting(done, ids) == Cardinality(done) < Cardinality(ids)

\* `if time.time() - start_time > 300: break`
GiveUp_restart(t, start) == t - t > Timeout
GiveUp_late(t, start) == t - start > Timeout + ErrSleep + MaxLatency
GiveUp(t, start) == t - start > Timeout

\* pending = [tid for tid in all_ids if tid not in completed_ids]
Pending(ids, done) == ids \ done

\* `if tid not in completed_ids`, the guard of the report fetch.
FetchGuard_none(tid, done) == TRUE
FetchGuard(tid, done) == tid \notin done

\* An entry of the status result: {"id": ..., "is_completed": ...}. The
\* remote may list any id, in any order, leave ids out or list them twice.
StatusEntries == [id : TaskIds, is_completed : IF counting THEN {FALSE} ELSE BOOLEAN]

Range(q) == {q[k] : k \in 1..Len(q)}

\* The positive sets a report may carry for a job: none, the submitted strings,
\* and their lowercased spellings beside a string that was never submitted.
LinkSetsFor(urls) == { {}, Range(urls), {Lower(u) : u \in Range(urls)} \cup {UC} }

\* What a report fetch comes to: a body with result.indexed_links, a body
\* without "result", or an exception (network, a body that is no JSON).
ReportOutcomes(urls) ==
    [kind : {"ok"}, links : LinkSetsFor(urls)]
        \cup [kind : {"noresult", "raise"}, links : {{}}]

\* set(rep_data.get("result", {}).get("indexed_links", []))
IndexedSet(rep) == IF rep.kind = "ok" THEN rep.links ELSE {}

\* df.columns[df.columns.str.lower().isin(['source','url','link'])][0]:
\* the first column, in column order, with one of the three labels.
RECURSIVE ReconcileColFrom(_, _)
ReconcileColFrom(cols, k) ==
    IF k > Len(cols) THEN NoCol
    ELSE IF LowerTok(cols[k]) \in ReconcileKeys THEN cols[k]
    ELSE ReconcileColFrom(cols, k + 1)

ReconcileCol(df) == ReconcileColFrom(df.columns, 1)

\* lambda x: (x.strip() in indexed_set) if isinstance(x, str) else False
Verdict(x, indexed_set) == IF IsStr(x) THEN Strip(x.toks) \in indexed_set ELSE FALSE

\* df.loc[mask, "Index"] = results_series: the column is created (NaN in the
\* rows outside the mask) when the frame has none.
WithIndexColumn(df) ==
    IF ColPos(df, "Index") # 0 THEN df
    ELSE Frame(Append(df.columns, "Index"),
               [r \in 1..Len(df.rows) |-> Append(df.rows[r], NaNCell)])

WriteIndex(df, mask, tcol, indexed_set) ==
    LET wide == WithIndexColumn(df)
        at == ColPos(wide, "Index")
    IN Frame(wide.columns,
             [r \in 1..Len(wide.rows) |->
                IF mask[r]
                THEN [wide.rows[r] EXCEPT ![at] =
                          BoolCell(Verdict(CellAt(df, r, tcol), indexed_set))]
                ELSE wide.rows[r]])

\* Where the body of the loop raises for a completed entry: in the report
\* fetch, or in the write-back (an id that is no key of active_tasks, no
\* column with one of the three labels); "none" when it does not.
EntryRaises(tid, rep, fr) ==
    IF rep.kind = "raise" THEN "report"
    ELSE IF tid \notin DOMAIN active_tasks THEN "reconcile"
    ELSE IF ReconcileCol(fr[active_tasks[tid].sheet]) = NoCol THEN "reconcile"
    ELSE "none"

\* The state of one pass over tasks_status.
PassStart ==
    [completed |-> completed_ids, frames |-> frames, processed |-> processed_sheets,
     still_running |-> 0, exc |-> "none", failed |-> "", refetched |-> refetched,
     reported |-> {}, blocked |-> {}]

\* The write-back of a fetched report, and the job marked completed.
Reconcile_nostore(st, tid, rep) == [st EXCEPT !.completed = @ \cup {tid}]
Reconcile(st, tid, rep) ==
    LET task_ctx == active_tasks[tid]
        df == st.frames[task_ctx.sheet]
    IN [st EXCEPT
          !.frames = [@ EXCEPT ![task_ctx.sheet] =
                        WriteIndex(df, task_ctx.valid_mask, ReconcileCol(df),
                                   IndexedSet(rep))],
          !.processed = @ \cup {task_ctx.sheet},
          !.completed = @ \cup {tid}]

\* The report of tid is requested: noted when tid is completed already.
Requested(st, tid) ==
    IF tid \in st.completed THEN [st EXCEPT !.refetched = @ \cup {tid}] ELSE st

\* The report request of tid is answered with rep: indexed_set is noted when
\* tid is a job of the run.
Answered(st, tid, rep) ==
    IF rep.kind # "raise" /\ tid \in DOMAIN active_tasks
    THEN [Requested(st, tid) EXCEPT
            !.reported = @ \cup {[id |-> tid, links |-> IndexedSet(rep)]}]
    ELSE Requested(st, tid)

\* The body of `for t_stat in tasks_status` for one entry; rep is what the
\* report fetch comes to if it is made.
HandleEntry(st, t_stat, rep) ==
    IF ~t_stat.is_completed THEN [st EXCEPT !.still_running = @ + 1]
    ELSE IF ~FetchGuard(t_stat.id, st.completed) THEN st
    ELSE IF EntryRaises(t_stat.id, rep, st.frames) # "none"
    THEN [Answered(st, t_stat.id, rep) EXCEPT
            !.exc = EntryRaises(t_stat.id, rep, st.frames), !.failed = t_stat.id]
    ELSE Reconcile(Answered(st, t_stat.id, rep), t_stat.id, rep)

\* An entry the pass never reaches because an earlier entry raised: recorded
\* in blocked when it reports another pending job completed whose own fetch
\* and write-back would not have raised.
SkipEntry(st, t_stat, rep) ==
    IF /\ t_stat.is_completed
       /\ t_stat.id # st.failed
       /\ t_stat.id \in all_ids \ st.completed
       /\ EntryRaises(t_stat.id, rep, st.frames) = "none"
    THEN [st EXCEPT !.blocked = @ \cup {t_stat.id}]
    ELSE st

\* One more entry of the result; an exception ends the pass.
OneEntry(st, t_stat, rep) ==
    IF st.exc # "none" THEN SkipEntry(st, t_stat, rep) ELSE HandleEntry(st, t_stat, rep)

\* What the report fetch of an entry may come to. Only the fetch of a pending
\* job of this run is told apart: any other is never made, or its write-back
\* raises whatever the report says.
RepliesFor(st, t_stat) ==
    IF /\ t_stat.is_completed
       /\ t_stat.id \in DOMAIN active_tasks
       /\ t_stat.id \notin st.completed
    THEN ReportOutcomes(active_tasks[t_stat.id].urls)
    ELSE {[kind |-> "ok", links |-> {}]}

\* The states of the pass after one more entry, from the states in sts.
NextEntry(sts) ==
    UNION { UNION { {OneEntry(st, t_stat, rep) : rep \in RepliesFor(st, t_stat)} :
                    t_stat \in StatusEntries } : st \in sts }

\* The states the pass may end in for a result of at most n more entries.
RECURSIVE PassEnds(_, _)
PassEnds(sts, n) == IF n = 0 THEN sts ELSE sts \cup PassEnds(NextEntry(sts), n - 1)

\* The pause at the end of a poll: 5 s after an exception, 2.5 s while a
\* listed job is still running, none otherwise.
PauseAfter(st) ==
    IF st.exc # "none" THEN ErrSleep
    ELSE IF st.still_running > 0 THEN PollSleep ELSE 0

\* time.time() after d units of remote calls and pauses.
Later(t, d) == Min(t + d, Horizon)

Count(n) == IF counting THEN Min(n + 1, AttemptCap) ELSE n

\* Where control is after the `except` of the poll: back in the loop.
AfterPollException_fault == "fault"
AfterPollException == "poll"

\* A poll whose status call raises (network, timeout, a body that is no JSON).
PollStatusFails ==
    /\ phase = "poll"
    /\ StillWaiting(completed_ids, all_ids)
    /\ ~GiveUp(now, start_time)
    /\ \E d \in 0..MaxLatency : now' = Later(now, d + ErrSleep)
    /\ phase' = AfterPollException
    /\ lastQuery' = Pending(all_ids, completed_ids)
    /\ attempts' = Count(attempts)
    /\ lastExc' = "status"
    /\ lastFailed' = ""
    /\ lastPause' = ErrSleep
    /\ reported' = {}
    /\ blocked' = {}
    /\ UNCHANGED <<workbook, counting, i, frames, processed_sheets, active_tasks,
                   total_urls_sent, completed_ids, all_ids, start_time, output,
                   written, slack, requests, createFailed, timedOut, refetched,
                   allStatusFailed>>

\* A poll whose status call answers: the pass over the result, then the pause.
PollTick ==
    /\ phase = "poll"
    /\ StillWaiting(completed_ids, all_ids)
    /\ ~GiveUp(now, start_time)
    /\ \E st \in PassEnds({PassStart}, MaxStatusLen) :
          /\ completed_ids' = st.completed
          /\ frames' = st.frames
          /\ processed_sheets' = st.processed
          /\ refetched' = st.refetched
          /\ blocked' = st.blocked
          /\ lastExc' = st.exc
          /\ lastFailed' = st.failed
          /\ lastPause' = PauseAfter(st)
          /\ reported' = st.reported
          /\ phase' = IF st.exc # "none" THEN AfterPollException ELSE "poll"
          /\ \E d \in 0..MaxLatency : now' = Later(now, d + PauseAfter(st))
    /\ lastQuery' = Pending(all_ids, completed_ids)
    /\ attempts' = Count(attempts)
    /\ allStatusFailed' = FALSE
    /\ UNCHANGED <<workbook, counting, i, active_tasks, total_urls_sent, all_ids,
                   start_time, output, written, slack, requests, createFailed,
                   timedOut>>

\* The timeout break.
TimeoutBreak ==
    /\ phase = "poll"
    /\ StillWaiting(completed_ids, all_ids)
    /\ GiveUp(now, start_time)
    /\ phase' = "save"
    /\ timedOut' = TRUE
    /\ UNCHANGED <<workbook, counting, i, frames, processed_sheets, active_tasks,
                   total_urls_sent, completed_ids, all_ids, start_time, now, output,
                   written, slack, requests, createFailed, attempts, lastQuery,
                   refetched, lastExc, lastFailed, lastPause, reported, blocked, allStatusFailed>>

\* The loop condition fails: every job is completed.
AllCompleted ==
    /\ phase = "poll"
    /\ ~StillWaiting(completed_ids, all_ids)
    /\ phase' = "save"
    /\ UNCHANGED <<workbook, counting, i, frames, processed_sheets, active_tasks,
                   total_urls_sent, completed_ids, all_ids, start_time, now, output,
                   written, slack, requests, createFailed, timedOut, attempts,
                   lastQuery, refetched, lastExc, lastFailed, lastPause, reported, blocked,
                   allStatusFailed>>

\* ------------------------------------------------------------------------
\* ЭТАП 3: the output workbook and the notification
\* ------------------------------------------------------------------------

RECURSIVE WriteSheets_all(_, _, _)
WriteSheets_all(names, ps, k) ==
    IF k > Len(names) THEN <<>>
    ELSE <<[name |-> names[k],
            df |-> IF names[k] \in ps THEN frames[names[k]] ELSE ReadSheet(names[k])]>>
             \o WriteSheets_all(names, ps, k + 1)

\* `for sheet_name in all_sheets: if sheet_name in processed_sheets: to_excel`
RECURSIVE WriteSheets(_, _, _)
WriteSheets(names, ps, k) ==
    IF k > Len(names) THEN <<>>
    ELSE IF names[k] \in ps
         THEN <<[name |-> names[k], df |-> frames[names[k]]]>> \o WriteSheets(names, ps, k + 1)
         ELSE WriteSheets(names, ps, k + 1)

\* The message: "Total URLs checked: ...; Sheets processed: ...".
SlackMessage == [total |-> total_urls_sent, sheets |-> Cardinality(processed_sheets)]

SaveAndReport ==
    /\ phase = "save"
    /\ output' = WriteSheets(all_sheets, processed_sheets, 1)
    /\ written' = TRUE
    /\ slack' = Append(slack, SlackMessage)
    /\ phase' = "done"
    /\ UNCHANGED <<workbook, counting, i, frames, processed_sheets, active_tasks,
                   total_urls_sent, completed_ids, all_ids, start_time, now,
                   requests, createFailed, timedOut, attempts, lastQuery, refetched,
                   lastExc, lastFailed, lastPause, reported, blocked, allStatusFailed>>

Next ==
    \/ SubmitNoColumn
    \/ SubmitNoUrls
    \/ SubmitCreate
    \/ NoActiveTasks
    \/ BeginWait
    \/ PollStatusFails
    \/ PollTick
    \/ TimeoutBreak
    \/ AllCompleted
    \/ SaveAndReport

Spec == Init /\ [][Next]_vars

\* The runs in which the status queries are counted.
InitCount == InitWith(CountBooks, TRUE) \/ InitWith(PlainBooks, FALSE)

SpecCount == InitCount /\ [][Next]_vars

\* Time does not stand still: while the wait lasts, the clock is seen to
\* advance again and again (until Horizon, where the clock of the model stops).
NonZeno == []<>(phase # "poll" \/ now = Horizon) \/ []<><<now' > now>>_vars

\* The script runs on: the test of the loop is made and the loop left when it
\* fails, the output is written once the loop is left; and time passes.
FairSpec ==
    /\ Spec
    /\ WF_vars(TimeoutBreak)
    /\ WF_vars(AllCompleted)
    /\ WF_vars(SaveAndReport)
    /\ NonZeno

\* ------------------------------------------------------------------------
\* Properties
\* ------------------------------------------------------------------------

Elapsed == now - start_time

\* The sheet of a job.
SheetOf(tid) == active_tasks[tid].sheet

\* A step of the wait that stays in the wait: one poll.
PollStep == phase = "poll" /\ phase' = "poll"

\* C1: the wait always ends: whatever the remote answers (never completed, an
\* exception in every poll, results that leave pending ids out), the poll
\* loop is left, with every job completed or with the wait timed out.
C1_WaitTerminates ==
    (phase = "poll") ~> (phase = "save" /\ (completed_ids = all_ids \/ timedOut))

\* A wait left by the timeout with a job that never completed.
C1_Witness == phase = "save" /\ timedOut /\ completed_ids # all_ids

\* C2 as claimed: the polls of a job that never completes are bounded by a
\* fixed attempt count, and the job is given up on when that many polls were
\* made. Whatever the count: a wait of polls that raise is given up on after
\* 41 polls, a wait of quick polls makes more than MaxAttempts of them.
C2_FixedAttemptCount ==
    /\ attempts <= MaxAttempts
    /\ timedOut => attempts >= MaxAttempts

\* C2 as amended: the wait is bounded by elapsed time, not by a count of
\* polls: a poll is made only while no more than Timeout has elapsed since
\* the wait began, and the wait is given up on only once more has elapsed.
C2_WallClockBudget ==
    /\ [][PollStep => Elapsed <= Timeout]_vars
    /\ [](timedOut => Elapsed > Timeout)

\* A wait given up on after fewer polls than the attempt ceiling.
C2_Witness == phase = "save" /\ timedOut /\ attempts > 0 /\ attempts < MaxAttempts

\* C3 as claimed: a job whose report fetch raised is terminal: it is not in
\* the status query of a later poll (its report fetch is not retried).
C3_FetchFailureTerminal ==
    [][(PollStep /\ lastExc = "report") => lastFailed \notin lastQuery']_vars

\* C4 as claimed: when the entry of one job raises in a poll, every other
\* pending job that the same status result reports completed is reconciled
\* and marked completed all the same.
C4_OthersStillReconciled == blocked \subseteq completed_ids

\* C5: an exception in the status call of a poll ends neither the run nor a
\* job: the loop goes on with the same pending jobs and nothing else changed,
\* and when every poll raised, the wait ends timed out with no job completed.
C5_StatusExceptionSwallowed ==
    /\ [][PollStatusFails =>
            /\ phase' = "poll"
            /\ Pending(all_ids', completed_ids') = lastQuery'
            /\ frames' = frames
            /\ processed_sheets' = processed_sheets]_vars
    /\ [](phase \in {"submit", "stopped", "poll", "save", "done"})
    /\ []((phase \in {"save", "done"} /\ allStatusFailed) =>
            (timedOut /\ completed_ids = {}))

\* A run that ended after a wait in which every poll raised in the status call.
C5_Witness == phase = "done" /\ allStatusFailed /\ timedOut /\ written

\* C6: Completed is terminal: a completed id stays completed, is in no later
\* status query, has its report requested no more, and the rows of its sheet
\* stay as they were written.
C6_CompletedTerminal ==
    /\ [][\A tid \in completed_ids :
            /\ tid \in completed_ids'
            /\ frames'[SheetOf(tid)] = frames[SheetOf(tid)]
            /\ PollStep => tid \notin lastQuery']_vars
    /\ [](refetched = {})

\* A poll made after a job completed, for the jobs still pending.
C6_Witness ==
    /\ phase = "poll"
    /\ completed_ids # {}
    /\ lastQuery # {}
    /\ lastQuery \cap completed_ids = {}

\* The selected sheets with at least one URL in their target column.
HasUrls(sheet) ==
    LET df == ReadSheet(sheet)
        col == TargetCol(df)
    IN col # NoCol /\ UrlsToCheck(df, col, ValidMask(df, col)) # <<>>

\* C7: a rejected or raised create call is local to its sheet: no job is
\* tracked for the sheet, the sheet is kept as it was read, and every
\* selected sheet with URLs is submitted all the same.
C7_CreateFailureLocal ==
    /\ \A sheet \in createFailed :
          /\ sheet \in processed_sheets
          /\ frames[sheet] = ReadSheet(sheet)
          /\ \A tid \in DOMAIN active_tasks : SheetOf(tid) # sheet
    /\ phase # "submit" =>
          \A k \in 1..Len(selected_sheets) :
             HasUrls(selected_sheets[k]) =>
                \E req \in requests : req.sheet = selected_sheets[k]

\* The create call of the first sheet failed and a later sheet got its job.
C7_Witness ==
    /\ phase = "poll"
    /\ selected_sheets[1] \in createFailed
    /\ \E tid \in DOMAIN active_tasks : SheetOf(tid) = selected_sheets[2]

\* C8 as claimed: every run ends with the output workbook written, also when
\* no job was created for any sheet.
C8_AlwaysOutput == phase \in {"stopped", "done"} => written

\* C8 as amended: a run in which at least one job was created ends with the
\* output workbook written; a run in which none was created stops before,
\* with no output.
C8_OutputWhenJobCreated ==
    /\ (phase = "poll") ~> (phase = "done" /\ written)
    /\ [](phase = "stopped" => (DOMAIN active_tasks = {} /\ ~written))
    /\ [](phase = "done" => DOMAIN active_tasks # {})

\* A run that ended with the output written though no job completed.
C8_Witness == phase = "done" /\ written /\ completed_ids = {}

\* C9 as claimed: the sheet of a job the wait gave up on is in the output
\* workbook, as it was read.
C9_TimedOutSheetInOutput ==
    (phase = "done" /\ timedOut) =>
        \A tid \in all_ids \ completed_ids :
           \E k \in 1..Len(output) :
              output[k] = [name |-> SheetOf(tid), df |-> ReadSheet(SheetOf(tid))]

\* C10 as claimed: no create request holds a URL twice.
C10_NoDuplicateTargets ==
    \A req \in requests :
       \A j, k \in 1..Len(req.urls) : j # k => req.urls[j] # req.urls[k]

\* The sheet is in the output workbook, as it was read.
InOutputAsRead(sheet) ==
    \E k \in 1..Len(output) : output[k] = [name |-> sheet, df |-> ReadSheet(sheet)]

\* C11: for a sheet the submission loop has passed and found without a URL
\* to check, no create request was sent and no job is tracked (so that no
\* status or report request concerns it), the sheet is kept as it was read,
\* no row written, and is in the output workbook when that is written.
C11_NoTargetsShortCircuit ==
    \A k \in 1..Len(selected_sheets) :
       (k < i /\ ~HasUrls(selected_sheets[k])) =>
          /\ \A req \in requests : req.sheet # selected_sheets[k]
          /\ \A tid \in DOMAIN active_tasks : SheetOf(tid) # selected_sheets[k]
          /\ selected_sheets[k] \in processed_sheets
          /\ frames[selected_sheets[k]] = ReadSheet(selected_sheets[k])
          /\ phase = "done" => InOutputAsRead(selected_sheets[k])

\* A run that ended with a job completed beside a sheet that has a target
\* column and no URL in it.
C11_Witness ==
    /\ phase = "done"
    /\ completed_ids # {}
    /\ \E k \in 1..Len(selected_sheets) :
          /\ TargetCol(ReadSheet(selected_sheets[k])) # NoCol
          /\ ~HasUrls(selected_sheets[k])
          /\ InOutputAsRead(selected_sheets[k])

\* df["Index"][r]; an empty cell when the frame has no such column.
IndexCell(df, r) == IF ColPos(df, "Index") = 0 THEN NaNCell ELSE CellAt(df, r, "Index")

\* The stripped target of row r of a sheet: the cell of the column the
\* submission took the URLs from.
TargetOf(sheet, r) == Strip(CellAt(ReadSheet(sheet), r, TargetCol(ReadSheet(sheet))).toks)

\* C12 as claimed: when a job completes, every row of its sheet that was
\* submitted holds in "Index" whether its stripped target is in the positive
\* set of the report, so that rows with one target hold one value.
C12_RowsHoldMembership ==
    \A rec \in reported :
       rec.id \in completed_ids =>
          \A r \in 1..Len(frames[SheetOf(rec.id)].rows) :
             active_tasks[rec.id].valid_mask[r] =>
                IndexCell(frames[SheetOf(rec.id)], r) =
                    BoolCell(TargetOf(SheetOf(rec.id), r) \in rec.links)

\* Every submitted row of the sheet of job tid holds b in "Index".
AllMarked(tid, b) ==
    \A r \in 1..Len(frames[SheetOf(tid)].rows) :
       active_tasks[tid].valid_mask[r] =>
          IndexCell(frames[SheetOf(tid)], r) = BoolCell(b)

\* C13 as claimed: round trip, under each accepted label of the target
\* column: a job reported completed whose report holds exactly the submitted
\* targets has every submitted row marked true, and one whose report holds no
\* target has every submitted row marked false.
C13_RoundTrip ==
    \A rec \in reported :
       /\ rec.links = Range(active_tasks[rec.id].urls) => AllMarked(rec.id, TRUE)
       /\ rec.links = {} => AllMarked(rec.id, FALSE)

\* C14: a row whose target cell does not look like a URL never has its
\* "Index" cell written: in every sheet read, in every state of the run and
\* whatever the reports hold, the cell is as it was read; a sheet without a
\* target column is as it was read altogether.
C14_OtherRowsUntouched ==
    \A sheet \in DOMAIN frames :
       IF TargetCol(ReadSheet(sheet)) = NoCol
       THEN frames[sheet] = ReadSheet(sheet)
       ELSE \A r \in 1..Len(ReadSheet(sheet).rows) :
               ~looks_like_url(CellAt(ReadSheet(sheet), r, TargetCol(ReadSheet(sheet)))) =>
                  IndexCell(frames[sheet], r) = IndexCell(ReadSheet(sheet), r)

\* A job completed on a report that holds a target never submitted, in a sheet
\* with a submitted row, written, beside a row that is no URL, left empty.
C14_Witness ==
    \E rec \in reported :
       /\ rec.id \in completed_ids
       /\ UC \in rec.links
       /\ \E r \in 1..Len(frames[SheetOf(rec.id)].rows) :
             /\ active_tasks[rec.id].valid_mask[r]
             /\ IndexCell(frames[SheetOf(rec.id)], r).kind = "bool"
       /\ \E r \in 1..Len(frames[SheetOf(rec.id)].rows) :
             /\ ~looks_like_url(CellAt(ReadSheet(SheetOf(rec.id)), r,
                                       TargetCol(ReadSheet(SheetOf(rec.id)))))
             /\ IndexCell(frames[SheetOf(rec.id)], r) = NaNCell

\* C15: the notification is sent only once the wait is over for every job,
\* each completed or given up on by the timeout: it is sent in the step from
\* "save" to "done" and at no other, the wait was left with every job
\* completed or timed out, and no poll is made once it is sent.
C15_NotifyAfterAllTerminal ==
    /\ [][slack' # slack =>
            /\ phase = "save" /\ phase' = "done"
            /\ completed_ids = all_ids \/ timedOut]_vars
    /\ [](phase \in {"save", "done"} => (completed_ids = all_ids \/ timedOut))
    /\ [](slack # <<>> => phase = "done")
    /\ [][PollStep => slack = <<>> /\ slack' = <<>>]_vars

\* The notification sent after a wait of two jobs, one completed and one
\* given up on.
C15_Witness ==
    /\ Len(slack) = 1
    /\ timedOut
    /\ completed_ids # {}
    /\ completed_ids # all_ids

\* The sheets of the workbook that were not selected.
Unselected == Range(all_sheets) \ Range(selected_sheets)

\* C16 as claimed: the sheets that were not selected are in the output
\* workbook, as they were read.
C16_UnselectedPassThrough ==
    phase = "done" => \A sheet \in Unselected : InOutputAsRead(sheet)

\* C16 as amended: the output workbook holds the sheets kept in
\* processed_sheets and no other, each once, in the order of the input
\* workbook, each as kept; a sheet that was not selected is never among them.
C16_OnlyKeptSheets ==
    phase = "done" =>
       /\ {output[k].name : k \in 1..Len(output)} = processed_sheets
       /\ \A k \in 1..Len(output) :
             /\ output[k].name \notin Unselected
             /\ output[k].df = frames[output[k].name]
       /\ \A j, k \in 1..Len(output) :
             j < k => ColPosFrom(all_sheets, output[j].name, 1)
                         < ColPosFrom(all_sheets, output[k].name, 1)

\* The output of a workbook with a sheet that was not selected: written, with
\* two sheets in it.
C16_Witness ==
    /\ phase = "done"
    /\ Unselected # {}
    /\ Len(output) = 2

\* C17 as claimed: a poll that ends with a job still not completed is
\* followed by a pause of at least the delay between two polls, before the
\* next status query; also when the status result left pending ids out or
\* was empty.
C17_PauseBeforeNextPoll ==
    (phase = "poll" /\ lastQuery # {} /\ StillWaiting(completed_ids, all_ids))
        => lastPause >= PollSleep

\* The number of URLs in the create requests of the set reqs.
RECURSIVE UrlCount(_)
UrlCount(reqs) ==
    IF reqs = {} THEN 0
    ELSE LET req == CHOOSE x \in reqs : TRUE
         IN Len(req.urls) + UrlCount(reqs \ {req})

\* C18 as claimed: the total the notification reports is the number of
\* targets of the jobs that were created; the targets of a sheet whose
\* create call was rejected or raised are not in it.
C18_TotalCountsCreatedJobs ==
    \A k \in 1..Len(slack) :
       slack[k].total = UrlCount({req \in requests : req.sheet \notin createFailed})

\* The jobs tracked for a sheet.
JobsOf(sheet) == {tid \in DOMAIN active_tasks : SheetOf(tid) = sheet}

\* C19 as claimed: when the submission loop is over, every selected sheet is
\* either kept in processed_sheets or tracked by exactly one job of
\* active_tasks, and not both, whatever task ids the remote handed out.
C19_SheetKeptOrTracked ==
    (phase \in {"submit", "stopped"} /\ i > Len(selected_sheets)) =>
       \A k \in 1..Len(selected_sheets) :
          \/ /\ selected_sheets[k] \in processed_sheets
             /\ JobsOf(selected_sheets[k]) = {}
          \/ /\ selected_sheets[k] \notin processed_sheets
             /\ Cardinality(JobsOf(selected_sheets[k])) = 1

\* C20: throughout the wait and after it, the completed ids are ids of
\* submitted jobs, so that an id of a status result that was never submitted
\* is never among them; the set only grows; and the sheet of a completed id
\* has been written back and is stored in processed_sheets.
C20_CompletedIdsSound ==
    /\ [](completed_ids \subseteq all_ids)
    /\ [](all_ids \subseteq DOMAIN active_tasks)
    /\ [][completed_ids \subseteq completed_ids']_vars
    /\ [](\A tid \in completed_ids :
            /\ SheetOf(tid) \in processed_sheets
            /\ ColPos(frames[SheetOf(tid)], "Index") # 0
            /\ \A r \in 1..Len(frames[SheetOf(tid)].rows) :
                  active_tasks[tid].valid_mask[r] =>
                     IndexCell(frames[SheetOf(tid)], r).kind = "bool")

\* A poll in which one job was completed and an entry for an id that was
\* never submitted, listed as completed, raised.
C20_Witness ==
    /\ phase = "poll"
    /\ completed_ids # {}
    /\ lastExc = "reconcile"
    /\ lastFailed \notin all_ids

====
